---- MODULE Spec2Model ----
(***************************************************************************)
(* BotShield feature pipeline.                                             *)
(*   Stage A  src/src/etl.py               feature extraction              *)
(*   Stage B  src/src/augment_features.py  split / label augmentation      *)
(*                                                                         *)
(* Strings are sequences of one-character strings.  A line of the tweet    *)
(* file is a sequence of tokens: " " (whitespace), ",", "[", "]", "x"      *)
(* (text that is no JSON) and the names of complete JSON texts, whose      *)
(* parsed values are given by JsonValue.  Timestamps are integers in ticks,*)
(* TicksPerDay ticks to the day.  A quotient computed by float division is *)
(* kept as the pair [num, den].                                            *)
(***************************************************************************)
EXTENDS Integers, Sequences, FiniteSets, TLC

VARIABLES
    \* ---- Stage A (etl.py) ----
    pc,                \* position of etl.main
    abort_at,          \* the step at which an exception ended the run ("" if none)
    selected_file,     \* selected_user_ids.json : sequence of JSON ids
    users_file,        \* subset_users.json      : sequence of user objects
    now,               \* wall clock read by datetime.now
    selected_ids,      \* set of int
    users_data,        \* rows appended for selected users (df_users)
    lines,             \* lines of tweet_subset.json consumed so far
    csv_rows,          \* matched tweet rows (df_tweets)
    tweet_count,
    intermediate_file, \* user_tweets_intermediate.csv
    dataset_end_date,
    tweet_features,    \* per-user aggregates
    final_df,
    final_file,        \* final_features.csv as written by Stage A
    written,           \* files written by this run, in order
    \* ---- Stage B (augment_features.py) ----
    pcB,
    features_file,     \* final_features.csv as read by Stage B
    split_file,        \* ../TwiBot-22/split.csv
    label_file,        \* ../TwiBot-22/label.csv
    df_features,
    df_split,
    df_label,
    df_merged,
    out_full,
    out_train,
    out_val,
    out_test

varsA == <<pc, abort_at, selected_file, users_file, now, selected_ids, users_data,
           lines, csv_rows, tweet_count, intermediate_file, dataset_end_date,
           tweet_features, final_df, final_file, written>>
varsB == <<pcB, features_file, split_file, label_file, df_features, df_split,
           df_label, df_merged, out_full, out_train, out_val, out_test>>
vars == <<varsA, varsB>>

(***************************************************************************)
(* Bounds                                                                  *)
(***************************************************************************)
MaxUsers == 2       \* user objects in subset_users.json
MaxLines == 2       \* lines of tweet_subset.json
TicksPerDay == 2    \* resolution of a timestamp
MaxFeatRows == 2    \* rows of final_features.csv read by Stage B
MaxSplitRows == 2   \* rows of split.csv
MaxLabelRows == 1   \* rows of label.csv
MaxKeyLen == 3      \* characters of an external key

(***************************************************************************)
(* Generic helpers                                                         *)
(***************************************************************************)
Range(s) == {s[i] : i \in 1..Len(s)}

SeqsUpTo(S, n) == UNION {[1..k -> S] : k \in 0..n}

RECURSIVE SumSeq(_)
SumSeq(s) == IF s = <<>> THEN 0 ELSE Head(s) + SumSeq(Tail(s))

MaxOf(S) == CHOOSE x \in S : \A y \in S : y <= x

MinOf(S) == CHOOSE x \in S : \A y \in S : x <= y

\* The elements of a finite set of integers in ascending order.
RECURSIVE SortedSeq(_)
SortedSeq(S) == IF S = {} THEN <<>> ELSE <<MinOf(S)>> \o SortedSeq(S \ {MinOf(S)})

Digits == {"0", "1", "2", "3", "4", "5", "6", "7", "8", "9"}

DigitVal(c) ==
    CASE c = "0" -> 0 [] c = "1" -> 1 [] c = "2" -> 2 [] c = "3" -> 3 [] c = "4" -> 4
      [] c = "5" -> 5 [] c = "6" -> 6 [] c = "7" -> 7 [] c = "8" -> 8 [] c = "9" -> 9

IsDigits(s) == Len(s) > 0 /\ \A i \in 1..Len(s) : s[i] \in Digits

\* The integer a string of decimal digits denotes.
RECURSIVE DigitsValue(_)
DigitsValue(s) ==
    IF s = <<>> THEN 0
    ELSE 10 * DigitsValue(SubSeq(s, 1, Len(s) - 1)) + DigitVal(s[Len(s)])

(***************************************************************************)
(* JSON ids: a number, or a string of digits.  int(x) coerces both.        *)
(***************************************************************************)
JInt(n) == [t |-> "int", n |-> n, s |-> <<>>]
JStr(s) == [t |-> "str", n |-> 0, s |-> s]

PyInt(j) == IF j.t = "int" THEN j.n ELSE DigitsValue(j.s)

(***************************************************************************)
(* Stage A inputs                                                          *)
(***************************************************************************)
\* A user object of subset_users.json.  verified is "absent", "null", "true" or
\* "false"; description.has is "absent", "null" or "str"; profile_image_url and
\* location are "absent", "null" or "str"; public_metrics may be absent.
User(id, verified, description, image, location, metrics, created) ==
    [id |-> id, verified |-> verified, description |-> description,
     profile_image_url |-> image, location |-> location,
     public_metrics |-> metrics, created_at |-> created]

NoDescription == [has |-> "absent", s |-> <<>>]
NullDescription == [has |-> "null", s |-> <<>>]
Description(s) == [has |-> "str", s |-> s]

NoMetrics == [has |-> FALSE, followers_count |-> 0, following_count |-> 0]
Metrics(followers, following) ==
    [has |-> TRUE, followers_count |-> followers, following_count |-> following]

\* The user objects the runs of Stage A draw subset_users.json from.
UserPool ==
    { User(JInt(1), "true", NoDescription, "absent", "absent", NoMetrics, 0),
      User(JStr(<<"1">>), "false", Description(<<"h", "i">>), "str", "str", Metrics(3, 2), 5),
      User(JInt(2), "absent", Description(<<>>), "str", "null", Metrics(4, 0), 4),
      User(JInt(2), "true", Description(<<"b">>), "str", "str", Metrics(1, 1), 9) }

UsersFiles == SeqsUpTo(UserPool, MaxUsers)

\* Every combination of the optional profile fields, for one user.
ProfilePool ==
    { User(JInt(1), v, d, i, l, NoMetrics, 0) :
        v \in {"absent", "null", "true", "false"},
        d \in {NoDescription, NullDescription, Description(<<>>), Description(<<"b">>)},
        i \in {"absent", "null", "str"},
        l \in {"absent", "null", "str"} }

SelectedFiles ==
    { <<>>, <<JInt(2)>>, <<JStr(<<"1">>), JInt(1)>>, <<JInt(1), JInt(2)>> }

\* A parsed JSON value.  t is "null", "num", "arr" or "obj"; only an object has keys.
JsonNonObject(t) ==
    [t |-> t, has_author_id |-> FALSE, author_id |-> JInt(0),
     has_id |-> FALSE, id |-> 0, has_text |-> FALSE, text |-> <<>>,
     has_created_at |-> FALSE, created_at |-> 0,
     has_public_metrics |-> FALSE, has_like_count |-> FALSE, like_count |-> 0,
     has_reply_count |-> FALSE, reply_count |-> 0]

Tweet(author, id, text, created, likes, replies) ==
    [t |-> "obj", has_author_id |-> TRUE, author_id |-> author,
     has_id |-> TRUE, id |-> id, has_text |-> TRUE, text |-> text,
     has_created_at |-> TRUE, created_at |-> created,
     has_public_metrics |-> TRUE, has_like_count |-> TRUE, like_count |-> likes,
     has_reply_count |-> TRUE, reply_count |-> replies]

\* The JSON texts that occur in the tweet file, by token name.
JsonValue ==
    [ tok \in {"null", "7", "[]", "{}", "T1", "T2", "T3"} |->
        CASE tok = "null" -> JsonNonObject("null")
          [] tok = "7"    -> JsonNonObject("num")
          [] tok = "[]"   -> JsonNonObject("arr")
          [] tok = "{}"   -> JsonNonObject("obj")
          [] tok = "T1"   -> Tweet(JInt(1), 101, <<"a", "b">>, 4, 2, 1)
          [] tok = "T2"   -> [Tweet(JStr(<<"1">>), 102, <<>>, 5, 0, 0)
                                EXCEPT !.has_public_metrics = FALSE,
                                       !.has_like_count = FALSE,
                                       !.has_reply_count = FALSE]
          [] tok = "T3"   -> [Tweet(JInt(2), 103, <<"c">>, 8, 1, 3)
                                EXCEPT !.has_reply_count = FALSE] ]

ValueTokens == DOMAIN JsonValue \ {"[]"}

\* The lines the runs of Stage A draw tweet_subset.json from.
LinePool ==
    { <<"[", " ">>,
      <<" ", "]", ",", " ">>,
      <<"x", ",">>,
      <<"{}", ",", " ">>,
      <<"[", "]">>,
      <<"T1", " ", ",", " ">>,
      <<"T2", " ">>,
      <<" ", "T3", ",">> }

(***************************************************************************)
(* Stage A: pure parts                                                     *)
(***************************************************************************)
\* u.get(key) is not None, for a key whose state is "absent", "null" or a value.
IsNotNone(state) == state \notin {"absent", "null"}

\* The score without the extra point for a non-empty description.
ScoreWithoutLengthPoint(u) ==
    (IF u.verified = "true" THEN 1 ELSE 0)
    + (IF IsNotNone(u.description.has) THEN 1 ELSE 0)
    + (IF IsNotNone(u.profile_image_url) THEN 1 ELSE 0)
    + (IF IsNotNone(u.location) THEN 1 ELSE 0)

\* etl.py 40-58: profile completeness score.
ProfileCompletenessScore(u) ==
    LET s1 == IF u.verified = "true" THEN 1 ELSE 0
        s2 == IF IsNotNone(u.description.has)
              THEN s1 + 1 + (IF Len(u.description.s) > 0 THEN 1 ELSE 0)
              ELSE s1
        s3 == IF IsNotNone(u.profile_image_url) THEN s2 + 1 ELSE s2
        s4 == IF IsNotNone(u.location) THEN s3 + 1 ELSE s3
    IN  s4

\* etl.py 61-68: followers / following, 0.0 when following is 0.
FollowerFollowingRatio(u) ==
    LET followers == IF u.public_metrics.has THEN u.public_metrics.followers_count ELSE 0
        following == IF u.public_metrics.has THEN u.public_metrics.following_count ELSE 0
    IN  IF following > 0 THEN [num |-> followers, den |-> following]
        ELSE [num |-> 0, den |-> 1]

\* etl.py 74-79: the row appended for a selected user.
UserRow(u) ==
    [user_id |-> PyInt(u.id),
     profile_completeness_score |-> ProfileCompletenessScore(u),
     follower_following_ratio |-> FollowerFollowingRatio(u),
     user_created_at |-> u.created_at]

\* etl.py 27-79: one row per user object whose int id is selected, in file order.
RECURSIVE ProfileRows(_, _)
ProfileRows(us, sel) ==
    IF us = <<>> THEN <<>>
    ELSE (IF PyInt(Head(us).id) \in sel THEN <<UserRow(Head(us))>> ELSE <<>>)
         \o ProfileRows(Tail(us), sel)

\* str.strip(): whitespace removed at both ends.
RECURSIVE Strip(_)
Strip(s) ==
    IF s = <<>> THEN s
    ELSE IF Head(s) = " " THEN Strip(Tail(s))
    ELSE IF s[Len(s)] = " " THEN Strip(SubSeq(s, 1, Len(s) - 1))
    ELSE s

\* "[" values separated by "," "]", whitespace already removed.
IsArrayText(b) ==
    /\ Len(b) >= 2 /\ b[1] = "[" /\ b[Len(b)] = "]"
    /\ LET inner == SubSeq(b, 2, Len(b) - 1)
       IN  \/ inner = <<>>
           \/ /\ Len(inner) % 2 = 1
              /\ \A i \in 1..Len(inner) :
                   IF i % 2 = 1
                   THEN inner[i] \in ValueTokens \/ inner[i] = "[]"
                   ELSE inner[i] = ","

\* json.loads: the token name of the value (every array reads as "[]"), or
\* "JSONDecodeError".
JsonLoads(s) ==
    LET body == Strip(s)
    IN  IF Len(body) = 1 /\ body[1] \in ValueTokens THEN body[1]
        ELSE IF IsArrayText(SelectSeq(body, LAMBDA c : c # " ")) THEN "[]"
        ELSE "JSONDecodeError"

\* etl.py 90-101: the token name of the parsed value, or "None".
parse_line(line) ==
    LET stripped == Strip(line)
        cut == IF stripped # <<>> /\ stripped[Len(stripped)] = ","
               THEN SubSeq(stripped, 1, Len(stripped) - 1)
               ELSE stripped
    IN  IF cut = <<"[">> \/ cut = <<"]">> THEN "None"
        ELSE LET loaded == JsonLoads(cut)
             IN  IF loaded = "JSONDecodeError" THEN "None"
                 ELSE IF JsonValue[loaded].t = "null" THEN "None"
                 ELSE loaded

\* etl.py 110: tweet['author_id'] raises unless tweet is an object with that key.
AuthorIdRaises(v) == v.t # "obj" \/ ~v.has_author_id

\* etl.py 122-129: tweet['id'], tweet['text'], tweet['created_at'] raise when missing.
RowRaises(v) == ~v.has_id \/ ~v.has_text \/ ~v.has_created_at

\* etl.py 114-129: the intermediate row of a matched tweet.
TweetRow(v) ==
    [user_id |-> PyInt(v.author_id),
     tweet_id |-> v.id,
     tweet_text |-> v.text,
     created_at |-> v.created_at,
     like_count |-> IF v.has_public_metrics /\ v.has_like_count THEN v.like_count ELSE 0,
     reply_count |-> IF v.has_public_metrics /\ v.has_reply_count THEN v.reply_count ELSE 0]

\* A DataFrame built from a list of row dicts has columns only if the list has a row.
HasColumns(rows) == rows # <<>>

\* etl.py 150-153: the reference date.
DatasetEndDate(rows, clock) ==
    IF rows # <<>> THEN MaxOf({rows[i].created_at : i \in 1..Len(rows)}) ELSE clock

\* etl.py 160-175: groupby('user_id').agg(...).reset_index(), sorted by user_id.
TweetFeatures(rows) ==
    LET ids == SortedSeq({rows[i].user_id : i \in 1..Len(rows)})
        Of(uid) == SelectSeq(rows, LAMBDA r : r.user_id = uid)
        Col(rs, F(_)) == [i \in 1..Len(rs) |-> F(rs[i])]
        Likes(r) == r.like_count
        Replies(r) == r.reply_count
        TextLen(r) == Len(r.tweet_text)
    IN  [k \in 1..Len(ids) |->
           [user_id |-> ids[k],
            total_likes_received |-> SumSeq(Col(Of(ids[k]), Likes)),
            total_replies_received |-> SumSeq(Col(Of(ids[k]), Replies)),
            avg_tweet_text_length |->
                [num |-> SumSeq(Col(Of(ids[k]), TextLen)), den |-> Len(Of(ids[k]))],
            obs_tweet_count |-> Len(Of(ids[k]))]]

\* A cell of a merged table: a value or NaN.
Cell(v) == [nan |-> FALSE, v |-> v]
NaNInt == [nan |-> TRUE, v |-> 0]
NaNFloat == [nan |-> TRUE, v |-> [num |-> 0, den |-> 1]]

\* etl.py 179: df_users.merge(tweet_features, on='user_id', how='left').
MergeLeftFeatures(users, feats) ==
    LET Matches(u) == SelectSeq(feats, LAMBDA f : f.user_id = u.user_id)
        Joined(u, f) ==
            [user_id |-> u.user_id,
             profile_completeness_score |-> u.profile_completeness_score,
             follower_following_ratio |-> u.follower_following_ratio,
             user_created_at |-> u.user_created_at,
             total_likes_received |-> Cell(f.total_likes_received),
             total_replies_received |-> Cell(f.total_replies_received),
             avg_tweet_text_length |-> Cell(f.avg_tweet_text_length),
             obs_tweet_count |-> Cell(f.obs_tweet_count)]
        Unmatched(u) ==
            [user_id |-> u.user_id,
             profile_completeness_score |-> u.profile_completeness_score,
             follower_following_ratio |-> u.follower_following_ratio,
             user_created_at |-> u.user_created_at,
             total_likes_received |-> NaNInt,
             total_replies_received |-> NaNInt,
             avg_tweet_text_length |-> NaNFloat,
             obs_tweet_count |-> NaNInt]
        RowsOf(u) == IF Matches(u) = <<>> THEN <<Unmatched(u)>>
                     ELSE [j \in 1..Len(Matches(u)) |-> Joined(u, Matches(u)[j])]
        RECURSIVE Go(_)
        Go(us) == IF us = <<>> THEN <<>> ELSE RowsOf(Head(us)) \o Go(Tail(us))
    IN  Go(users)

\* etl.py 182-188: fillna with 0 in the four aggregate columns.
FillNaFeatures(rows) ==
    [i \in 1..Len(rows) |->
       [rows[i] EXCEPT
          !.total_likes_received = IF @.nan THEN 0 ELSE @.v,
          !.total_replies_received = IF @.nan THEN 0 ELSE @.v,
          !.avg_tweet_text_length = IF @.nan THEN [num |-> 0, den |-> 1] ELSE @.v,
          !.obs_tweet_count = IF @.nan THEN 0 ELSE @.v]]

\* Timedelta.days: whole days, rounded towards minus infinity.
TimedeltaDays(ticks) == ticks \div TicksPerDay

\* A clamp at 0 instead of 1.
ClipLowerAtZero(x) == IF x < 0 THEN 0 ELSE x

\* clip(lower=1)
ClipLower(x) == IF x < 1 THEN 1 ELSE x

\* etl.py 196-202: account age in whole days, at least 1.
AccountAgeDays(end, created) == ClipLower(TimedeltaDays(end - created))

\* etl.py 196-204 and 218: the output row of a merged row.
OutputRow(r, end) ==
    [user_id |-> r.user_id,
     profile_completeness_score |-> r.profile_completeness_score,
     total_likes_received |-> r.total_likes_received,
     total_replies_received |-> r.total_replies_received,
     avg_tweets_per_day |->
         [num |-> r.obs_tweet_count, den |-> AccountAgeDays(end, r.user_created_at)],
     avg_tweet_text_length |-> r.avg_tweet_text_length,
     follower_following_ratio |-> r.follower_following_ratio]

(***************************************************************************)
(* Stage A: etl.main, step by step                                         *)
(***************************************************************************)
Abort(step) == pc' = "aborted" /\ abort_at' = step

NoFile == [run |-> "previous", rows |-> <<>>]

InitStageA(selections, users) ==
    /\ pc = "start"
    /\ abort_at = ""
    /\ selected_file \in selections
    /\ users_file \in users
    /\ now \in {12}
    /\ selected_ids = {}
    /\ users_data = <<>>
    /\ lines = <<>>
    /\ csv_rows = <<>>
    /\ tweet_count = 0
    /\ intermediate_file = NoFile
    /\ dataset_end_date = 0
    /\ tweet_features = <<>>
    /\ final_df = <<>>
    /\ final_file = NoFile
    /\ written = <<>>

StageBOff ==
    /\ pcB = "off"
    /\ features_file = [exists |-> FALSE, rows |-> <<>>]
    /\ split_file = [exists |-> FALSE, rows |-> <<>>]
    /\ label_file = [exists |-> FALSE, rows |-> <<>>]
    /\ df_features = <<>>
    /\ df_split = <<>>
    /\ df_label = <<>>
    /\ df_merged = <<>>
    /\ out_full = NoFile
    /\ out_train = NoFile
    /\ out_val = NoFile
    /\ out_test = NoFile

\* etl.py 14-17
LoadSelectedIds ==
    /\ pc = "start"
    /\ selected_ids' = {PyInt(selected_file[i]) : i \in 1..Len(selected_file)}
    /\ pc' = "profiles"
    /\ UNCHANGED <<abort_at, selected_file, users_file, now, users_data, lines, csv_rows,
                   tweet_count, intermediate_file, dataset_end_date, tweet_features,
                   final_df, final_file, written>>
    /\ UNCHANGED varsB

\* etl.py 21-82
ProcessUserProfiles ==
    /\ pc = "profiles"
    /\ users_data' = ProfileRows(users_file, selected_ids)
    /\ pc' = "stream"
    /\ UNCHANGED <<abort_at, selected_file, users_file, now, selected_ids, lines, csv_rows,
                   tweet_count, intermediate_file, dataset_end_date, tweet_features,
                   final_df, final_file, written>>
    /\ UNCHANGED varsB

\* etl.py 105-131: one iteration of the loop over the lines of the tweet file.
ReadLine ==
    /\ pc = "stream"
    /\ Len(lines) < MaxLines
    /\ \E line \in LinePool :
         /\ lines' = Append(lines, line)
         /\ LET tweet == parse_line(line)
            IN  IF tweet = "None"
                THEN UNCHANGED <<pc, abort_at, csv_rows, tweet_count>>
                ELSE IF AuthorIdRaises(JsonValue[tweet])
                THEN Abort("stream") /\ UNCHANGED <<csv_rows, tweet_count>>
                ELSE IF PyInt(JsonValue[tweet].author_id) \notin selected_ids
                THEN UNCHANGED <<pc, abort_at, csv_rows, tweet_count>>
                ELSE IF RowRaises(JsonValue[tweet])
                THEN Abort("stream") /\ UNCHANGED <<csv_rows, tweet_count>>
                ELSE /\ csv_rows' = Append(csv_rows, TweetRow(JsonValue[tweet]))
                     /\ tweet_count' = tweet_count + 1
                     /\ UNCHANGED <<pc, abort_at>>
    /\ UNCHANGED <<selected_file, users_file, now, selected_ids, users_data,
                   intermediate_file, dataset_end_date, tweet_features, final_df,
                   final_file, written>>
    /\ UNCHANGED varsB

\* etl.py 105, 133-136: the file is exhausted.
EndOfStream ==
    /\ pc = "stream"
    /\ pc' = "persist"
    /\ UNCHANGED <<abort_at, selected_file, users_file, now, selected_ids, users_data, lines,
                   csv_rows, tweet_count, intermediate_file, dataset_end_date,
                   tweet_features, final_df, final_file, written>>
    /\ UNCHANGED varsB

\* A checkpoint that is skipped when no tweet matched.
PersistIntermediateIfAny ==
    /\ pc = "persist"
    /\ IF csv_rows # <<>>
       THEN /\ intermediate_file' = [run |-> "this", rows |-> csv_rows]
            /\ written' = Append(written, "user_tweets_intermediate.csv")
       ELSE UNCHANGED <<intermediate_file, written>>
    /\ pc' = "aggregate"
    /\ UNCHANGED <<abort_at, selected_file, users_file, now, selected_ids, users_data, lines,
                   csv_rows, tweet_count, dataset_end_date, tweet_features, final_df,
                   final_file>>
    /\ UNCHANGED varsB

\* etl.py 138-140
PersistIntermediate ==
    /\ pc = "persist"
    /\ intermediate_file' = [run |-> "this", rows |-> csv_rows]
    /\ written' = Append(written, "user_tweets_intermediate.csv")
    /\ pc' = "aggregate"
    /\ UNCHANGED <<abort_at, selected_file, users_file, now, selected_ids, users_data, lines,
                   csv_rows, tweet_count, dataset_end_date, tweet_features, final_df,
                   final_file>>
    /\ UNCHANGED varsB

\* etl.py 142-175: df_tweets['created_at'] raises KeyError on a frame without columns.
ComputeTweetFeatures ==
    /\ pc = "aggregate"
    /\ IF ~HasColumns(csv_rows)
       THEN Abort("aggregate") /\ UNCHANGED <<dataset_end_date, tweet_features>>
       ELSE /\ dataset_end_date' = DatasetEndDate(csv_rows, now)
            /\ tweet_features' = TweetFeatures(csv_rows)
            /\ pc' = "merge"
            /\ UNCHANGED abort_at
    /\ UNCHANGED <<selected_file, users_file, now, selected_ids, users_data, lines, csv_rows,
                   tweet_count, intermediate_file, final_df, final_file, written>>
    /\ UNCHANGED varsB

\* etl.py 177-204: merge on 'user_id' raises KeyError when df_users has no columns.
MergeWithUsers ==
    /\ pc = "merge"
    /\ IF ~HasColumns(users_data)
       THEN Abort("merge") /\ UNCHANGED final_df
       ELSE /\ final_df' = FillNaFeatures(MergeLeftFeatures(users_data, tweet_features))
            /\ pc' = "output"
            /\ UNCHANGED abort_at
    /\ UNCHANGED <<selected_file, users_file, now, selected_ids, users_data, lines, csv_rows,
                   tweet_count, intermediate_file, dataset_end_date, tweet_features,
                   final_file, written>>
    /\ UNCHANGED varsB

\* etl.py 190-234
WriteFinalFeatures ==
    /\ pc = "output"
    /\ final_file' = [run |-> "this",
                      rows |-> [i \in 1..Len(final_df) |->
                                  OutputRow(final_df[i], dataset_end_date)]]
    /\ written' = Append(written, "final_features.csv")
    /\ pc' = "done"
    /\ UNCHANGED <<abort_at, selected_file, users_file, now, selected_ids, users_data, lines,
                   csv_rows, tweet_count, intermediate_file, dataset_end_date,
                   tweet_features, final_df>>
    /\ UNCHANGED varsB

Init == InitStageA(SelectedFiles, UsersFiles) /\ StageBOff

Next ==
    \/ LoadSelectedIds
    \/ ProcessUserProfiles
    \/ ReadLine
    \/ EndOfStream
    \/ PersistIntermediate
    \/ ComputeTweetFeatures
    \/ MergeWithUsers
    \/ WriteFinalFeatures

Spec == Init /\ [][Next]_vars

\* Stage A on one user object with every combination of optional profile fields.
InitScore ==
    InitStageA({<<JStr(<<"1">>), JInt(1)>>, <<JInt(2)>>}, {<<u>> : u \in ProfilePool}) /\ StageBOff

SpecScore == InitScore /\ [][Next]_vars

(***************************************************************************)
(* Stage A: properties                                                     *)
(***************************************************************************)
FinalWritten == final_file.run = "this"

\* The user objects of the profile source whose id is in the selected set.
SelectedUsers == SelectSeq(users_file, LAMBDA u : PyInt(u.id) \in selected_ids)

\* The values of the lines that parse to a record, in stream order.
ParsedRecords(ls) ==
    LET parsed == [i \in 1..Len(ls) |-> parse_line(ls[i])]
        kept == SelectSeq(parsed, LAMBDA tok : tok # "None")
    IN  [i \in 1..Len(kept) |-> JsonValue[kept[i]]]

\* The parsed records of the stream that are tweets of selected users.
MatchedTweets(ls) ==
    SelectSeq(ParsedRecords(ls),
              LAMBDA v : v.t = "obj" /\ v.has_author_id
                         /\ PyInt(v.author_id) \in selected_ids)

StreamPassed == pc \in {"persist", "aggregate", "merge", "output", "done"}
                \/ (pc = "aborted" /\ abort_at # "stream")

\* C1: whenever final_features.csv is written, every user_id that is selected and
\* occurs in the profile source is the user_id of exactly one output row, and no
\* other user_id occurs.
C1_ExactlyOnce ==
    FinalWritten =>
      LET rows == final_file.rows
          expected == selected_ids \cap {PyInt(users_file[i].id) : i \in 1..Len(users_file)}
      IN  /\ \A uid \in expected :
                Cardinality({i \in 1..Len(rows) : rows[i].user_id = uid}) = 1
          /\ \A i \in 1..Len(rows) : rows[i].user_id \in expected

\* C2: the matcher never aborts on a line, and once the stream is passed the rows
\* emitted are exactly those of the parsed records whose author is selected, in
\* stream order.
C2_MatcherSkipsSilently ==
    /\ abort_at # "stream"
    /\ StreamPassed =>
         /\ Len(csv_rows) = Len(MatchedTweets(lines))
         /\ \A i \in 1..Len(csv_rows) :
               /\ csv_rows[i].user_id = PyInt(MatchedTweets(lines)[i].author_id)
               /\ csv_rows[i].tweet_id = MatchedTweets(lines)[i].id

\* C3: a run whose stream pass matched no tweet completes, with the current time
\* as dataset_end_date and one all-zero row per profile-matched selected user.
C3_NoMatchedTweetCompletes ==
    (pc \in {"done", "aborted"} /\ abort_at # "stream" /\ csv_rows = <<>>
       /\ users_data # <<>>) =>
      /\ pc = "done"
      /\ dataset_end_date = now
      /\ Len(final_file.rows) = Len(SelectedUsers)
      /\ \A i \in 1..Len(final_file.rows) :
            /\ final_file.rows[i].total_likes_received = 0
            /\ final_file.rows[i].total_replies_received = 0
            /\ final_file.rows[i].avg_tweet_text_length.num = 0
            /\ final_file.rows[i].avg_tweets_per_day.num = 0

\* C6: the score of every selected user record is in 0..5 and is the sum of one
\* point each for verified = true, a description, a description of length > 0, a
\* profile_image_url and a location; a field that is absent (or JSON null, which
\* u.get returns as None like a missing key) contributes nothing.
C6_ScoreFormula ==
    pc \notin {"start", "profiles"} =>
      /\ Len(users_data) = Len(SelectedUsers)
      /\ \A i \in 1..Len(users_data) :
           LET u == SelectedUsers[i]
               Carries(state) == state \notin {"absent", "null"}
               Point(b) == IF b THEN 1 ELSE 0
               score == users_data[i].profile_completeness_score
           IN  /\ score \in 0..5
               /\ score = Point(u.verified = "true")
                          + Point(Carries(u.description.has))
                          + Point(Carries(u.description.has) /\ Len(u.description.s) > 0)
                          + Point(Carries(u.profile_image_url))
                          + Point(Carries(u.location))

\* C6 witness: a verified user with a non-empty description, an image and a
\* location has been scored 5.
C6_Witness ==
    /\ pc = "stream"
    /\ Len(users_data) = 1
    /\ users_data[1].profile_completeness_score = 5
    /\ users_file[1].description.s # <<>>

\* C8: in every output row avg_tweets_per_day is obs_tweet_count over
\* account_age_days, where obs_tweet_count is the number of tweets of that user in
\* the stream and account_age_days is the whole-day floor of dataset_end_date minus
\* the user's created_at, never less than 1.
C8_AvgTweetsPerDay ==
    FinalWritten =>
      LET rows == final_file.rows
          matched == MatchedTweets(lines)
          end == MaxOf({matched[k].created_at : k \in 1..Len(matched)})
      IN  /\ Len(rows) = Len(SelectedUsers)
          /\ \A i \in 1..Len(rows) :
               LET u == SelectedUsers[i]
                   obs == Cardinality({k \in 1..Len(matched) :
                                          PyInt(matched[k].author_id) = rows[i].user_id})
                   days == (end - u.created_at) \div TicksPerDay
                   age == IF days < 1 THEN 1 ELSE days
               IN  /\ rows[i].user_id = PyInt(u.id)
                   /\ rows[i].avg_tweets_per_day.den >= 1
                   /\ rows[i].avg_tweets_per_day = [num |-> obs, den |-> age]

\* C8 witness: an output with a user created after dataset_end_date who has a
\* tweet (age clamped to 1) and a user without any tweet.
C8_Witness ==
    /\ FinalWritten
    /\ \E i \in 1..Len(final_file.rows) :
          /\ SelectedUsers[i].created_at > dataset_end_date
          /\ final_file.rows[i].avg_tweets_per_day = [num |-> 1, den |-> 1]
    /\ \E i \in 1..Len(final_file.rows) : final_file.rows[i].avg_tweets_per_day.num = 0

\* C9: once the stream pass is over and any later step has run, the intermediate
\* table has been written by this run, first of all files, with exactly the
\* matched rows (even none); nothing is aggregated or output before it; and when
\* final_features.csv is written the aggregates are those of the written rows.
C9_CheckpointBeforeAggregation ==
    /\ (pc \in {"aggregate", "merge", "output", "done"}
        \/ (pc = "aborted" /\ abort_at \in {"aggregate", "merge"})) =>
          /\ written # <<>>
          /\ written[1] = "user_tweets_intermediate.csv"
          /\ intermediate_file = [run |-> "this", rows |-> csv_rows]
    /\ intermediate_file.run # "this" =>
          /\ tweet_features = <<>>
          /\ final_df = <<>>
          /\ ~FinalWritten
    /\ FinalWritten =>
          /\ written = <<"user_tweets_intermediate.csv", "final_features.csv">>
          /\ tweet_features = TweetFeatures(intermediate_file.rows)
          /\ Len(intermediate_file.rows) = Len(MatchedTweets(lines))

\* C9 witness: final_features.csv has been written after a checkpoint of two rows.
C9_Witness ==
    /\ FinalWritten
    /\ Len(intermediate_file.rows) = 2

(***************************************************************************)
(* Stage B inputs                                                          *)
(***************************************************************************)
MissingFile == [exists |-> FALSE, rows |-> <<>>]
CsvFile(rows) == [exists |-> TRUE, rows |-> rows]

FeatureRowPool ==
    { [user_id |-> 1, profile_completeness_score |-> 1],
      [user_id |-> 2, profile_completeness_score |-> 5] }

FeaturesFiles ==
    {MissingFile} \cup {CsvFile(r) : r \in SeqsUpTo(FeatureRowPool, MaxFeatRows)}

SplitRowPool ==
    { [id |-> <<"u", "1">>, split |-> "train"],
      [id |-> <<"1", "u">>, split |-> "val"],
      [id |-> <<"u", "2">>, split |-> "test"],
      [id |-> <<"t", "2">>, split |-> "train"],
      [id |-> <<"u", "0", "1">>, split |-> "dev"] }

SplitFiles ==
    {MissingFile} \cup {CsvFile(r) : r \in SeqsUpTo(SplitRowPool, MaxSplitRows)}

LabelRowPool ==
    { [id |-> <<"u", "1">>, label |-> "bot"],
      [id |-> <<"u", "2">>, label |-> "human"],
      [id |-> <<"t", "1">>, label |-> "bot"] }

LabelFiles ==
    {MissingFile} \cup {CsvFile(r) : r \in SeqsUpTo(LabelRowPool, MaxLabelRows)}

\* Every external key of at most MaxKeyLen characters.
KeyChars == {"u", "t", "0", "1", "2"}
Keys == SeqsUpTo(KeyChars, MaxKeyLen)

(***************************************************************************)
(* Stage B: pure parts                                                     *)
(***************************************************************************)
\* A nullable Int64: <NA> or an integer.
NA == [na |-> TRUE, v |-> 0]
Int64(n) == [na |-> FALSE, v |-> n]

\* The first character removed, whatever it is.
StripFirstChar(key) == IF key = <<>> THEN key ELSE Tail(key)

\* str.replace('u', '', regex=False): every 'u' is removed.
ReplaceU(key) == SelectSeq(key, LAMBDA c : c # "u")

\* augment_features.py 21: to_numeric(errors='coerce').astype('Int64').
ToNumericInt64(s) == IF IsDigits(s) THEN Int64(DigitsValue(s)) ELSE NA

\* augment_features.py 19-21, on one key.
NormalizeKey(key) == ToNumericInt64(ReplaceU(key))

\* augment_features.py 14-22 and the rename of 'id' to 'user_id'.
normalize_id(rows, col) ==
    [i \in 1..Len(rows) |-> [user_id |-> NormalizeKey(rows[i].id), value |-> rows[i][col]]]

NaNStr == [nan |-> TRUE, v |-> ""]

\* augment_features.py 54, 57: left.merge(right, on='user_id', how='left'); the
\* column col of the result holds the right table's value, or NaN.
MergeLeft(left, right, col) ==
    LET Matches(l) ==
            SelectSeq(right, LAMBDA r : ~r.user_id.na /\ r.user_id.v = l.user_id)
        RowsOf(l) ==
            IF Matches(l) = <<>> THEN <<l @@ (col :> NaNStr)>>
            ELSE [j \in 1..Len(Matches(l)) |-> l @@ (col :> Cell(Matches(l)[j].value))]
        RECURSIVE Go(_)
        Go(ls) == IF ls = <<>> THEN <<>> ELSE RowsOf(Head(ls)) \o Go(Tail(ls))
    IN  Go(left)

\* A fill that leaves NaN in place.
NoFill(cell) == cell

\* fillna('unknown') on one cell.
FillUnknown(cell) == IF cell.nan THEN Cell("unknown") ELSE cell

\* augment_features.py 60-61
FillMissing(rows) ==
    [i \in 1..Len(rows) |->
       [rows[i] EXCEPT !.split = FillUnknown(@), !.label = FillUnknown(@)]]

\* A subset taken without the mask.
SubsetUnmasked(rows, split_name) == rows

\* augment_features.py 75: df_merged[df_merged['split'] == split_name]
Subset(rows, split_name) ==
    SelectSeq(rows, LAMBDA r : ~r.split.nan /\ r.split.v = split_name)

(***************************************************************************)
(* Stage B: augment_features.main, step by step                            *)
(***************************************************************************)
StageAOff ==
    /\ pc = "off"
    /\ abort_at = ""
    /\ selected_file = <<>>
    /\ users_file = <<>>
    /\ now = 0
    /\ selected_ids = {}
    /\ users_data = <<>>
    /\ lines = <<>>
    /\ csv_rows = <<>>
    /\ tweet_count = 0
    /\ intermediate_file = NoFile
    /\ dataset_end_date = 0
    /\ tweet_features = <<>>
    /\ final_df = <<>>
    /\ final_file = NoFile
    /\ written = <<>>

InitStageB(features, splits, labels) ==
    /\ pcB = "start"
    /\ features_file \in features
    /\ split_file \in splits
    /\ label_file \in labels
    /\ df_features = <<>>
    /\ df_split = <<>>
    /\ df_label = <<>>
    /\ df_merged = <<>>
    /\ out_full = NoFile
    /\ out_train = NoFile
    /\ out_val = NoFile
    /\ out_test = NoFile

\* augment_features.py 25-31: without the feature file the run ends, nothing written.
LoadFeatures ==
    /\ pcB = "start"
    /\ IF ~features_file.exists
       THEN pcB' = "done" /\ UNCHANGED df_features
       ELSE pcB' = "load_split" /\ df_features' = features_file.rows
    /\ UNCHANGED <<features_file, split_file, label_file, df_split, df_label, df_merged,
                   out_full, out_train, out_val, out_test>>
    /\ UNCHANGED varsA

\* augment_features.py 33-40
LoadSplit ==
    /\ pcB = "load_split"
    /\ df_split' = IF split_file.exists THEN normalize_id(split_file.rows, "split") ELSE <<>>
    /\ pcB' = "load_label"
    /\ UNCHANGED <<features_file, split_file, label_file, df_features, df_label, df_merged,
                   out_full, out_train, out_val, out_test>>
    /\ UNCHANGED varsA

\* augment_features.py 42-49
LoadLabel ==
    /\ pcB = "load_label"
    /\ df_label' = IF label_file.exists THEN normalize_id(label_file.rows, "label") ELSE <<>>
    /\ pcB' = "merge"
    /\ UNCHANGED <<features_file, split_file, label_file, df_features, df_split, df_merged,
                   out_full, out_train, out_val, out_test>>
    /\ UNCHANGED varsA

\* augment_features.py 51-61: the two left joins and the fill.
MergeAndFill ==
    /\ pcB = "merge"
    /\ df_merged' = FillMissing(MergeLeft(MergeLeft(df_features, df_split, "split"),
                                          df_label, "label"))
    /\ pcB' = "save_full"
    /\ UNCHANGED <<features_file, split_file, label_file, df_features, df_split, df_label,
                   out_full, out_train, out_val, out_test>>
    /\ UNCHANGED varsA

\* augment_features.py 66-68
SaveFull ==
    /\ pcB = "save_full"
    /\ out_full' = [run |-> "this", rows |-> df_merged]
    /\ pcB' = "save_train"
    /\ UNCHANGED <<features_file, split_file, label_file, df_features, df_split, df_label,
                   df_merged, out_train, out_val, out_test>>
    /\ UNCHANGED varsA

\* augment_features.py 70-77: one iteration of the loop over train, val, test.
SaveSubset ==
    /\ pcB \in {"save_train", "save_val", "save_test"}
    /\ CASE pcB = "save_train" ->
              /\ out_train' = [run |-> "this", rows |-> Subset(df_merged, "train")]
              /\ pcB' = "save_val"
              /\ UNCHANGED <<out_val, out_test>>
         [] pcB = "save_val" ->
              /\ out_val' = [run |-> "this", rows |-> Subset(df_merged, "val")]
              /\ pcB' = "save_test"
              /\ UNCHANGED <<out_train, out_test>>
         [] pcB = "save_test" ->
              /\ out_test' = [run |-> "this", rows |-> Subset(df_merged, "test")]
              /\ pcB' = "done"
              /\ UNCHANGED <<out_train, out_val>>
    /\ UNCHANGED <<features_file, split_file, label_file, df_features, df_split, df_label,
                   df_merged, out_full>>
    /\ UNCHANGED varsA

InitB == StageAOff /\ InitStageB(FeaturesFiles, SplitFiles, LabelFiles)

NextB ==
    \/ LoadFeatures
    \/ LoadSplit
    \/ LoadLabel
    \/ MergeAndFill
    \/ SaveFull
    \/ SaveSubset

SpecB == InitB /\ [][NextB]_vars

\* Stage B on a one-row feature table and a split table of one row whose key is
\* any string of Keys; no label table.
InitKeys ==
    /\ StageAOff
    /\ InitStageB({CsvFile(<<[user_id |-> n, profile_completeness_score |-> 3]>>) :
                      n \in {1, 2, 12}},
                  {CsvFile(<<[id |-> k, split |-> "train"]>>) : k \in Keys},
                  {MissingFile})

SpecKeys == InitKeys /\ [][NextB]_vars

(***************************************************************************)
(* Stage B: properties                                                     *)
(***************************************************************************)
Merged == pcB \in {"save_full", "save_train", "save_val", "save_test"}
          \/ (pcB = "done" /\ features_file.exists)

\* The values an external table gives for a user id: those of the rows whose key
\* normalizes to it, in file order.
ExternalValues(file, col, uid) ==
    LET hits == SelectSeq(file.rows, LAMBDA r : NormalizeKey(r.id) = Int64(uid))
    IN  [j \in 1..Len(hits) |-> hits[j][col]]

\* C4: after the joins and the fill no row has a null split or label; the value
\* is one the external table gives for the row's user_id, and "unknown" when the
\* table gives none or its file is missing; a run that found the feature file
\* ends with the augmented table written.
C4_SplitAndLabelResolved ==
    /\ Merged =>
         \A i \in 1..Len(df_merged) :
            LET r == df_merged[i]
                splits == ExternalValues(split_file, "split", r.user_id)
                labels == ExternalValues(label_file, "label", r.user_id)
            IN  /\ ~r.split.nan
                /\ ~r.label.nan
                /\ r.split.v \in (IF splits = <<>> THEN {"unknown"} ELSE Range(splits))
                /\ r.label.v \in (IF labels = <<>> THEN {"unknown"} ELSE Range(labels))
                /\ ~split_file.exists => r.split.v = "unknown"
                /\ ~label_file.exists => r.label.v = "unknown"
    /\ (pcB = "done" /\ features_file.exists) =>
         out_full = [run |-> "this", rows |-> df_merged]

\* C4 witness: split.csv has the key "u1", label.csv is missing, and the
\* augmented row of user 1 is written with split "train" and label "unknown".
C4_Witness ==
    /\ pcB = "done"
    /\ ~label_file.exists
    /\ split_file.exists
    /\ \E i \in 1..Len(out_full.rows) :
          /\ out_full.rows[i].user_id = 1
          /\ out_full.rows[i].split = Cell("train")
          /\ out_full.rows[i].label = Cell("unknown")

KeyOfRun == split_file.rows[1].id

LettersOfKeys == {"u", "t"}

Count(rows, x) == Cardinality({i \in 1..Len(rows) : rows[i] = x})

\* C7: every augmented row whose split is "train", "val" or "test" is in the
\* subset of that name, as often as in the augmented table, and in no other; a row
\* with any other split is in none of the three.
C7_SubsetsPartition ==
    (pcB = "done" /\ features_file.exists) =>
      /\ \A x \in Range(out_full.rows) :
            /\ Count(out_train.rows, x)
                 = (IF x.split.v = "train" THEN Count(out_full.rows, x) ELSE 0)
            /\ Count(out_val.rows, x)
                 = (IF x.split.v = "val" THEN Count(out_full.rows, x) ELSE 0)
            /\ Count(out_test.rows, x)
                 = (IF x.split.v = "test" THEN Count(out_full.rows, x) ELSE 0)
      /\ Range(out_train.rows) \cup Range(out_val.rows) \cup Range(out_test.rows)
            \subseteq Range(out_full.rows)
      /\ Len(out_train.rows) + Len(out_val.rows) + Len(out_test.rows)
            = Cardinality({i \in 1..Len(out_full.rows) :
                             out_full.rows[i].split.v \in {"train", "val", "test"}})

\* C7 witness: a run has ended with a row in the train subset, a row whose split
\* is "unknown" and a row whose split is "dev", the last two in no subset.
C7_Witness ==
    /\ pcB = "done"
    /\ out_train.rows # <<>>
    /\ \E i \in 1..Len(out_full.rows) : out_full.rows[i].split.v = "unknown"
    /\ \E i \in 1..Len(out_full.rows) : out_full.rows[i].split.v = "dev"

\* C10: the augmented table has exactly one row for each row of the feature
\* table, in the same order.
C10_OneRowPerFeatureRow ==
    Merged =>
      /\ Len(df_merged) = Len(df_features)
      /\ \A i \in 1..Len(df_features) : df_merged[i].user_id = df_features[i].user_id

====
